---- MODULE Spec2Model ----
(***************************************************************************)
(* A model of incubator/IC50_synthetic-bayesian.ipynb: the notebook's      *)
(* state-changing cells, run top to bottom.  Cells that only display       *)
(* (plt.scatter, shapes, dtypes) write no variable and are not modelled.   *)
(*                                                                         *)
(* numpy arrays are functions on 0..n-1, so that indices are the source's. *)
(* Floating-point values are records [k, v]: k = "fin" with v the value in *)
(* thousandths, "huge" (finite, above the fixed-point range), "inf", "nan".*)
(* Concentrations and parameters are integer-valued.                       *)
(*                                                                         *)
(* A trace is a sequence of runs [n, draw]: a Metropolis chain repeats its *)
(* current point on every rejected proposal.  Runs are kept canonical (no  *)
(* empty run, no two adjacent runs with the same draw), so two traces are  *)
(* equal exactly when they hold the same draws in the same order.          *)
(***************************************************************************)
EXTENDS Integers, Sequences, FiniteSets

VARIABLES
    pc,             \* the last cell that completed
    arange_args,    \* the (start, stop, step) of each np.arange of x_concs
    rng,            \* state of np.random before y_noisy is drawn
    ic50_true, x_concs, y_true, y_noisy,
    concentrations,
    data,           \* the DataFrame, by column
    model,          \* the declared model: datasize and the indexed inputs
    start,          \* the point find_MAP is at
    measurements,   \* the Deterministic "measurements" evaluated at start
    y_like_sd,      \* the sd of y_like evaluated at start
    iters,          \* evaluations find_MAP has made
    trace, plotted, summarized, summary,
    error

vars == <<pc, arange_args, rng, ic50_true, x_concs, y_true, y_noisy,
          concentrations, data, model, start, measurements, y_like_sd, iters,
          trace, plotted, summarized, summary, error>>

-----------------------------------------------------------------------------
(* Bounds of the model.                                                    *)
MaxDrugs == 2
MaxRanges == 2
MaxSeed == 2
MaxMapIters == 2

(* Program constants.                                                      *)
beta_true == 1
NoiseSd == 150
Draws == 10000
PlotStart == 5000
SummaryStart == 5000
HpdMassPct == 95
ExpOverflowArg == 710

-----------------------------------------------------------------------------
(* Arrays on 0..n-1.                                                       *)
ALen(a) == Cardinality(DOMAIN a)

Empty == [k \in {} |-> 0]

Min(S) == CHOOSE m \in S : \A x \in S : m <= x

Max(S) == CHOOSE m \in S : \A x \in S : m >= x

(* np.arange(a, b, s) for s > 0. *)
Arange(a, b, s) ==
    LET n == IF b > a THEN ((b - a) + s - 1) \div s ELSE 0
    IN  [k \in 0..(n - 1) |-> a + k * s]

Concat2(a, b) ==
    [k \in 0..(ALen(a) + ALen(b) - 1) |->
        IF k < ALen(a) THEN a[k] ELSE b[k - ALen(a)]]

(* np.unique(np.concatenate(arrays)): each value once, ascending. *)
ConcatenateUnique(arrays) ==
    LET vals == UNION {{arrays[j][k] : k \in DOMAIN arrays[j]} :
                            j \in DOMAIN arrays}
    IN  [j \in 0..(Cardinality(vals) - 1) |->
            CHOOSE v \in vals : Cardinality({w \in vals : w < v}) = j]

(* np.concatenate(arrays): every entry of every array, in order. *)
RECURSIVE Concatenate(_)
Concatenate(arrays) ==
    IF arrays = <<>> THEN Empty
    ELSE Concat2(Head(arrays), Concatenate(Tail(arrays)))

-----------------------------------------------------------------------------
(* Floating point.                                                         *)
Fin(v) == [k |-> "fin", v |-> v]
Huge == [k |-> "huge", v |-> 0]
Inf == [k |-> "inf", v |-> 0]
NaN == [k |-> "nan", v |-> 0]

(* e^x in thousandths, x = 0..14, and e^-x, x = 1..7. *)
ExpTable == <<1000, 2718, 7389, 20086, 54598, 148413, 403429, 1096633,
              2980958, 8103084, 22026466, 59874142, 162754791, 442413392,
              1202604284>>
ExpNegTable == <<368, 135, 50, 18, 7, 2, 1>>

(* 1.0 in thousandths; the greatest numerator a division takes; the first  *)
(* argument whose exponential is above the tables, and the first below.    *)
Scale == ExpTable[1]
FixMax == Scale * Scale
ExpHugeArg == Len(ExpTable)
ExpTinyArg == Len(ExpNegTable) + 1

(* exp of an integer argument: +inf from the overflow threshold of float64 *)
FExp(x) ==
    IF x >= ExpOverflowArg THEN Inf
    ELSE IF x >= ExpHugeArg THEN Huge
    ELSE IF x >= 0 THEN Fin(ExpTable[x + 1])
    ELSE IF x > 0 - ExpTinyArg THEN Fin(ExpNegTable[0 - x])
    ELSE Fin(0)

FAdd(a, b) ==
    IF a.k = "nan" \/ b.k = "nan" THEN NaN
    ELSE IF a.k = "inf" \/ b.k = "inf" THEN Inf
    ELSE IF a.k = "huge" \/ b.k = "huge" THEN Huge
    ELSE Fin(a.v + b.v)

(* a / b for a >= 0, b >= 0, rounded to the nearest thousandth. *)
FDiv(a, b) ==
    IF a.k = "nan" \/ b.k = "nan" THEN NaN
    ELSE IF a.k = "inf" THEN (IF b.k = "inf" THEN NaN ELSE Inf)
    ELSE IF b.k = "inf" THEN Fin(0)
    ELSE IF b.k = "fin" /\ b.v = 0 THEN
            (IF a.k = "fin" /\ a.v = 0 THEN NaN ELSE Inf)
    ELSE IF a.k = "huge" THEN Huge
    ELSE IF b.k = "huge" THEN Fin(0)
    ELSE IF a.v > FixMax THEN Huge
    ELSE Fin((a.v * Scale + b.v \div 2) \div b.v)

(* beta * exp(-x) / (1 + exp(-x)): equal on the reals, NaN once exp(-x)    *)
(* overflows.                                                              *)
ResponseViaNegExp(beta, x) ==
    FDiv(IF FExp(0 - x).k = "fin" THEN Fin(beta * FExp(0 - x).v)
         ELSE FExp(0 - x),
         FAdd(Fin(Scale), FExp(0 - x)))

(* beta / (1 + exp(x)), as written in the source. *)
Response(beta, x) ==
    FDiv(Fin(beta * Scale), FAdd(Fin(Scale), FExp(x)))

-----------------------------------------------------------------------------
(* Data generation cell.                                                   *)

(* One draw of np.random.normal(0, 0.15) from generator state s, in        *)
(* thousandths: one standard deviation below, at, or above the mean.       *)
NormalDraw(s) == ((s % 3) - 1) * NoiseSd

(* x_concs with np.unique applied to the concatenation. *)
XConcsUnique(args) ==
    ConcatenateUnique([j \in DOMAIN args |-> Arange(args[j][1], args[j][2], args[j][3])])

XConcs(args) ==
    Concatenate([j \in DOMAIN args |-> Arange(args[j][1], args[j][2], args[j][3])])

(* beta_true / (1 + np.exp(x_concs - ic50_true)): (N,1) against (1,G). *)
YTrue(xs, trues) ==
    [i \in DOMAIN xs |->
        [g \in DOMAIN trues |-> Response(beta_true, xs[i] - trues[g])]]

(* y_true + np.random.normal(0, 0.15, size=y_true.shape): drawn row by row *)
YNoisy(yt, trues, s) ==
    [i \in DOMAIN yt |->
        [g \in DOMAIN trues |->
            FAdd(yt[i][g], Fin(NormalDraw(s + i * ALen(trues) + g)))]]

Generate ==
    /\ pc = "start"
    /\ x_concs' = XConcs(arange_args)
    /\ y_true' = YTrue(x_concs', ic50_true)
    /\ y_noisy' = YNoisy(y_true', ic50_true, rng)
    /\ rng' = rng + ALen(x_concs') * ALen(ic50_true)
    /\ pc' = "generated"
    /\ UNCHANGED <<arange_args, ic50_true, concentrations, data, model, start,
                   measurements, y_like_sd, iters, trace, plotted, summarized,
                   summary, error>>

(* np.concatenate([x_concs] * ic50_true.shape[1]) *)
Repeat(xs, g) == Concatenate([j \in 1..g |-> xs])

ConcatConcentrations ==
    /\ pc = "generated"
    /\ concentrations' = Repeat(x_concs, ALen(ic50_true))
    /\ pc' = "concatenated"
    /\ UNCHANGED <<arange_args, rng, ic50_true, x_concs, y_true, y_noisy, data,
                   model, start, measurements, y_like_sd, iters, trace, plotted,
                   summarized, summary, error>>

-----------------------------------------------------------------------------
(* Data assembly cell.                                                     *)

(* y.flatten(order="C"): row by row. *)
FlattenC(y, n, g) == [k \in 0..(n * g - 1) |-> y[k \div g][k % g]]

(* y.flatten(order="F"): column by column. *)
FlattenF(y, n, g) == [k \in 0..(n * g - 1) |-> y[k % n][k \div n]]

(* for i in range(g): drugs.extend([i] * n) *)
Drugs(g, n) == [k \in 0..(g * n - 1) |-> k \div n]

(* LabelEncoder().fit_transform(col): the rank of each label among the     *)
(* distinct labels.                                                        *)
LabelEncode(col) ==
    LET classes == {col[k] : k \in DOMAIN col}
    IN  [k \in DOMAIN col |-> Cardinality({c \in classes : c < col[k]})]

Assemble ==
    /\ pc = "concatenated"
    /\ LET n == ALen(x_concs)
           g == ALen(ic50_true)
           meas == FlattenF(y_noisy, n, g)
           drug == Drugs(g, n)
       IN  IF ALen(meas) = ALen(concentrations) /\ ALen(drug) = ALen(concentrations)
           THEN /\ data' = [concentrations |-> concentrations,
                            measurements |-> meas,
                            drug |-> drug,
                            idxs |-> LabelEncode(drug)]
                /\ pc' = "assembled"
                /\ error' = error
           ELSE /\ data' = data
                /\ pc' = "failed"
                /\ error' = "ValueError"
    /\ UNCHANGED <<arange_args, rng, ic50_true, x_concs, y_true, y_noisy,
                   concentrations, model, start, measurements, y_like_sd, iters,
                   trace, plotted, summarized, summary>>

-----------------------------------------------------------------------------
(* Model declaration cell.                                                 *)

(* len(data["idxs"]): the rows, not the distinct indices. *)
DataSizeRows(idxs) == ALen(idxs)

(* len(set(data["idxs"])) *)
DataSize(idxs) == Cardinality({idxs[k] : k \in DOMAIN idxs})

NoModel == [datasize |-> 0, idxs |-> Empty, concentrations |-> Empty,
            observed |-> Empty]

DeclaredModel(d) ==
    [datasize |-> DataSize(d.idxs),
     idxs |-> d.idxs,
     concentrations |-> d.concentrations,
     observed |-> d.measurements]

(* The declaration with a check of the concentrations in front of it. *)
DeclareRejectNegative ==
    /\ pc = "assembled"
    /\ IF \E k \in DOMAIN data.concentrations : data.concentrations[k] < 0
       THEN /\ error' = "InputError"
            /\ pc' = "failed"
            /\ model' = model
       ELSE /\ model' = DeclaredModel(data)
            /\ pc' = "declared"
            /\ error' = error
    /\ UNCHANGED <<arange_args, rng, ic50_true, x_concs, y_true, y_noisy,
                   concentrations, data, start, measurements, y_like_sd, iters,
                   trace, plotted, summarized, summary>>

(* The declaration with a check of every drug's observation count in front *)
(* of it.                                                                  *)
DeclareRejectEmptyGroup ==
    /\ pc = "assembled"
    /\ IF \E g \in DOMAIN ic50_true : \A k \in DOMAIN data.drug : data.drug[k] # g
       THEN /\ error' = "InputError"
            /\ pc' = "failed"
            /\ model' = model
       ELSE /\ model' = DeclaredModel(data)
            /\ pc' = "declared"
            /\ error' = error
    /\ UNCHANGED <<arange_args, rng, ic50_true, x_concs, y_true, y_noisy,
                   concentrations, data, start, measurements, y_like_sd, iters,
                   trace, plotted, summarized, summary>>

(* with pm.Model() as model: ... ; no input is checked. *)
Declare ==
    /\ pc = "assembled"
    /\ model' = DeclaredModel(data)
    /\ pc' = "declared"
    /\ UNCHANGED <<arange_args, rng, ic50_true, x_concs, y_true, y_noisy,
                   concentrations, data, start, measurements, y_like_sd, iters,
                   trace, plotted, summarized, summary, error>>

(* Evaluation of the declared graph at a point p = [beta, noise, IC50].    *)

(* beta[0] / (1 + exp(c - ic50[0])): every row read from the first slot. *)
MeasurementsFirstSlot(m, p) ==
    [i \in DOMAIN m.idxs |->
        Response(p.beta[0], m.concentrations[i] - p.IC50[0])]

(* beta[idxs] / (1 + tt.exp(concentrations - ic50[idxs])) *)
MeasurementsAt(m, p) ==
    [i \in DOMAIN m.idxs |->
        Response(p.beta[m.idxs[i]], m.concentrations[i] - p.IC50[m.idxs[i]])]

(* sd=noise[idxs] *)
SdAt(m, p) == [i \in DOMAIN m.idxs |-> p.noise[m.idxs[i]]]

IndexInBounds(m) == \A i \in DOMAIN m.idxs : m.idxs[i] \in 0..(m.datasize - 1)

-----------------------------------------------------------------------------
(* Inference cell: start = pm.find_MAP(), then pm.sample.                  *)

(* The points the optimizer and the sampler visit: a base point and every  *)
(* point that differs from it in one parameter of one drug.  A drug's IC50 *)
(* is tried at 0, at 1 and at its true value.                              *)
BasePoint(m) ==
    [beta |-> [g \in 0..(m.datasize - 1) |-> 1],
     noise |-> [g \in 0..(m.datasize - 1) |-> 1],
     IC50 |-> [g \in 0..(m.datasize - 1) |-> 0]]

Ic50Tries(g) == {1} \cup (IF g \in DOMAIN ic50_true THEN {ic50_true[g]} ELSE {})

Points(m) ==
    LET b == BasePoint(m)
        slots == 0..(m.datasize - 1)
    IN  {b}
        \cup {[b EXCEPT !.beta[g] = 2] : g \in slots}
        \cup {[b EXCEPT !.noise[g] = 2] : g \in slots}
        \cup UNION {{[b EXCEPT !.IC50[g] = v] : v \in Ic50Tries(g)} : g \in slots}

NoPoint == [beta |-> Empty, noise |-> Empty, IC50 |-> Empty]

(* One evaluation of the model by find_MAP, at the point it moves to. *)
MapStep ==
    /\ pc \in {"declared", "map"}
    /\ iters < MaxMapIters
    /\ IF IndexInBounds(model)
       THEN \E p \in Points(model) :
                /\ start' = p
                /\ measurements' = MeasurementsAt(model, p)
                /\ y_like_sd' = SdAt(model, p)
                /\ iters' = iters + 1
                /\ pc' = "map"
                /\ error' = error
       ELSE /\ error' = "IndexError"
            /\ pc' = "failed"
            /\ UNCHANGED <<start, measurements, y_like_sd, iters>>
    /\ UNCHANGED <<arange_args, rng, ic50_true, x_concs, y_true, y_noisy,
                   concentrations, data, model, trace, plotted, summarized,
                   summary>>

(* Traces, as canonical sequences of runs.                                 *)
RECURSIVE Canon(_)
Canon(runs) ==
    IF runs = <<>> THEN <<>>
    ELSE IF Head(runs).n = 0 THEN Canon(Tail(runs))
    ELSE LET rest == Canon(Tail(runs))
         IN  IF rest # <<>> /\ Head(rest).draw = Head(runs).draw
             THEN <<[n |-> Head(runs).n + Head(rest).n, draw |-> Head(runs).draw]>>
                  \o Tail(rest)
             ELSE <<Head(runs)>> \o rest

RECURSIVE RunLen(_)
RunLen(runs) == IF runs = <<>> THEN 0 ELSE Head(runs).n + RunLen(Tail(runs))

(* What the trace records of one draw: the free parameters and the         *)
(* Deterministic.                                                          *)
DrawOf(m, p) ==
    [beta |-> p.beta, noise |-> p.noise, IC50 |-> p.IC50,
     measurements |-> MeasurementsAt(m, p)]

(* The draws at which the chain may leave its starting point. *)
SwitchPoints == {Draws \div 2 - 1, Draws \div 2, Draws \div 2 + 1, Draws - 10}

(* pm.sample(draws=10000, step=pm.Metropolis(), start=...) *)
Sample ==
    /\ pc = "map"
    /\ \E q \in Points(model), sw \in SwitchPoints :
            trace' = Canon(<<[n |-> sw, draw |-> DrawOf(model, start)],
                            [n |-> Draws - sw, draw |-> DrawOf(model, q)]>>)
    /\ pc' = "sampled"
    /\ UNCHANGED <<arange_args, rng, ic50_true, x_concs, y_true, y_noisy,
                   concentrations, data, model, start, measurements, y_like_sd,
                   iters, plotted, summarized, summary, error>>

-----------------------------------------------------------------------------
(* Trace plot and summary cells.                                           *)

(* t[:s]: the first s draws. *)
RECURSIVE PySliceTo(_, _)
PySliceTo(t, s) ==
    IF t = <<>> \/ s <= 0 THEN <<>>
    ELSE IF Head(t).n <= s THEN <<Head(t)>> \o PySliceTo(Tail(t), s - Head(t).n)
    ELSE <<[Head(t) EXCEPT !.n = s]>>

(* t[s:]: the draws from position s on, s >= 0. *)
RECURSIVE PySlice(_, _)
PySlice(t, s) ==
    IF t = <<>> \/ s <= 0 THEN t
    ELSE IF Head(t).n <= s THEN PySlice(Tail(t), s - Head(t).n)
    ELSE <<[Head(t) EXCEPT !.n = @ - s]>> \o Tail(t)

(* pm.traceplot(trace[5000:]) *)
Traceplot ==
    /\ pc = "sampled"
    /\ plotted' = PySlice(trace, PlotStart)
    /\ pc' = "plotted"
    /\ UNCHANGED <<arange_args, rng, ic50_true, x_concs, y_true, y_noisy,
                   concentrations, data, model, start, measurements, y_like_sd,
                   iters, trace, summarized, summary, error>>

(* The rows of the summary: one per entry of every recorded variable. *)
Columns(m) ==
    ({"beta", "noise", "IC50"} \X (0..(m.datasize - 1)))
    \cup ({"measurements"} \X DOMAIN m.idxs)

ValueOf(draw, c) ==
    IF c[1] = "measurements" THEN draw.measurements[c[2]].v ELSE draw[c[1]][c[2]]

(* One column of a trace: runs [n, v]. *)
Column(t, c) == [j \in DOMAIN t |-> [n |-> t[j].n, v |-> ValueOf(t[j].draw, c)]]

ColN(col) == RunLen(col)

RECURSIVE ColSum(_)
ColSum(col) ==
    IF col = <<>> THEN 0 ELSE Head(col).n * Head(col).v + ColSum(Tail(col))

(* How many draws of the column are <= v. *)
RECURSIVE CountLE(_, _)
CountLE(col, v) ==
    IF col = <<>> THEN 0
    ELSE (IF Head(col).v <= v THEN Head(col).n ELSE 0) + CountLE(Tail(col), v)

(* Entry j (from 0) of the column sorted ascending. *)
SortedAt(col, j) ==
    Min({col[r].v : r \in {r \in DOMAIN col : CountLE(col, col[r].v) > j}})

(* The interval from the least to the greatest draw. *)
FullRange(col) ==
    [lo |-> Min({col[r].v : r \in DOMAIN col}),
     hi |-> Max({col[r].v : r \in DOMAIN col})]

(* The window starts j at which sorted[j + inc] - sorted[j] can change:   *)
(* 0, and every j where sorted[j] or sorted[j + inc] is the first entry of *)
(* a new value.  Between two of them the width is constant, so the least   *)
(* width and the first window that has it are found among them.            *)
WindowStarts(col, inc, last) ==
    {0} \cup {j \in UNION {{CountLE(col, col[r].v), CountLE(col, col[r].v) - inc} :
                            r \in DOMAIN col} : 0 <= j /\ j <= last}

(* The narrowest interval that spans floor(mass * n) steps of the sorted   *)
(* draws, the first such when several are as narrow (pymc3's hpd: the      *)
(* widths of all n - inc windows, np.argmin).                              *)
CalcMinInterval(col) ==
    LET n == ColN(col)
        inc == (HpdMassPct * n) \div 100
        js == WindowStarts(col, inc, n - inc - 1)
        narrowest == Min({SortedAt(col, j + inc) - SortedAt(col, j) : j \in js})
        min_idx == Min({j \in js :
                        SortedAt(col, j + inc) - SortedAt(col, j) = narrowest})
    IN  [lo |-> SortedAt(col, min_idx), hi |-> SortedAt(col, min_idx + inc)]

(* One row of pm.summary: the mean as sum / n, and the hpd interval. *)
SummaryRow(col) ==
    LET h == CalcMinInterval(col)
    IN  [n |-> ColN(col), sum |-> ColSum(col), hpd_lo |-> h.lo, hpd_hi |-> h.hi]

(* trace = trace[5000:]; pm.summary(trace): the slice written back. *)
SummaryRebindsTrace ==
    /\ pc = "plotted"
    /\ summarized' = PySlice(trace, SummaryStart)
    /\ trace' = summarized'
    /\ summary' = [c \in Columns(model) |-> SummaryRow(Column(summarized', c))]
    /\ pc' = "summarized"
    /\ UNCHANGED <<arange_args, rng, ic50_true, x_concs, y_true, y_noisy,
                   concentrations, data, model, start, measurements, y_like_sd,
                   iters, plotted, error>>

(* pm.summary(trace[5000:]) *)
Summary ==
    /\ pc = "plotted"
    /\ summarized' = PySlice(trace, SummaryStart)
    /\ summary' = [c \in Columns(model) |-> SummaryRow(Column(summarized', c))]
    /\ pc' = "summarized"
    /\ UNCHANGED <<arange_args, rng, ic50_true, x_concs, y_true, y_noisy,
                   concentrations, data, model, start, measurements, y_like_sd,
                   iters, trace, plotted, error>>

-----------------------------------------------------------------------------
(* Inputs and specifications.                                              *)

(* The np.arange calls an x_concs may be put together from. *)
RangeArgs ==
    {<<0, 0, 1>>, <<0, 2, 1>>, <<1, 3, 1>>, <<0, 4, 2>>, <<0 - 1, 1, 1>>}

TrueIc50s == {0, 1, 2}

SeqsUpTo(S, n) == UNION {[1..m -> S] : m \in 0..n}

InitWith(grids, trues, seeds) ==
    /\ pc = "start"
    /\ arange_args \in grids
    /\ \E g \in 1..MaxDrugs : ic50_true \in [0..(g - 1) -> trues]
    /\ rng \in seeds
    /\ x_concs = Empty
    /\ y_true = Empty
    /\ y_noisy = Empty
    /\ concentrations = Empty
    /\ data = [concentrations |-> Empty, measurements |-> Empty,
               drug |-> Empty, idxs |-> Empty]
    /\ model = NoModel
    /\ start = NoPoint
    /\ measurements = Empty
    /\ y_like_sd = Empty
    /\ iters = 0
    /\ trace = <<>>
    /\ plotted = <<>>
    /\ summarized = <<>>
    /\ summary = Empty
    /\ error = "none"

NextData == Generate \/ ConcatConcentrations \/ Assemble \/ Declare

NextMap == NextData \/ MapStep

Next == NextMap \/ Sample \/ Traceplot \/ Summary

(* The whole notebook, on a grid of one np.arange. *)
Init == InitWith(SeqsUpTo(RangeArgs, 1), {1}, {0})

Spec == Init /\ [][Next]_vars

(* The data cells and the declaration, on every grid. *)
InitData == InitWith(SeqsUpTo(RangeArgs, MaxRanges), TrueIc50s, 0..MaxSeed)

SpecData == InitData /\ [][NextData]_vars

(* The response at the ends of the range of concentration - IC50. *)
ExtremeRangeArgs ==
    {<<0, 2, 1>>, <<709, 711, 1>>, <<0, 1000001, 1000000>>, <<14, 16, 1>>}

ExtremeIc50s == {0, 710, 1000000}

InitExtreme == InitWith(SeqsUpTo(ExtremeRangeArgs, 1), ExtremeIc50s, {0})

SpecResponse == InitExtreme /\ [][NextMap]_vars

-----------------------------------------------------------------------------
(* Properties.                                                             *)

Rank(p) ==
    CASE p = "start" -> 0
      [] p = "generated" -> 1
      [] p = "concatenated" -> 2
      [] p = "assembled" -> 3
      [] p = "declared" -> 4
      [] p = "map" -> 5
      [] p = "sampled" -> 6
      [] p = "plotted" -> 7
      [] p = "summarized" -> 8
      [] OTHER -> 9

NDrugs == ALen(ic50_true)

NPoints == ALen(x_concs)

(* Some drug of ic50_true has no row in the table. *)
EmptyDrugGroup ==
    \E g \in DOMAIN ic50_true : \A k \in DOMAIN data.drug : data.drug[k] # g

HasNegative ==
    \E k \in DOMAIN data.concentrations : data.concentrations[k] < 0

SamplingStarted == pc \in {"map", "sampled", "plotted", "summarized"}

C3_DenseIndex ==
    (pc \in {"assembled", "declared"} /\ NDrugs >= 1 /\ NPoints >= 1) =>
        /\ \A k \in DOMAIN data.idxs : data.idxs[k] \in 0..(NDrugs - 1)
        /\ \A g \in 0..(NDrugs - 1) : \E k \in DOMAIN data.idxs : data.idxs[k] = g
        /\ pc = "declared" =>
                /\ model.datasize = NDrugs
                /\ model.idxs = data.idxs
                /\ IndexInBounds(model)

C3_Witness ==
    /\ pc = "declared"
    /\ NDrugs = 2
    /\ NPoints >= 2
    /\ model.datasize = 2

(* The entries of np.arange(a, b, s), counted without building the array. *)
ArangeCount(r) == Cardinality({v \in r[1]..(r[2] - 1) : (v - r[1]) % r[3] = 0})

(* How many of the concatenated ranges hold v. *)
RangesHolding(v) ==
    Cardinality({j \in DOMAIN arange_args :
                    /\ arange_args[j][1] <= v
                    /\ v < arange_args[j][2]
                    /\ (v - arange_args[j][1]) % arange_args[j][3] = 0})

RECURSIVE GridEntries(_)
GridEntries(args) ==
    IF args = <<>> THEN 0 ELSE ArangeCount(Head(args)) + GridEntries(Tail(args))

(* C4: the table has (entries of the grid, with multiplicity) x (drugs)    *)
(* rows; a concentration that is in several of the concatenated ranges is  *)
(* on as many rows of every drug, in the table and in the declared model.  *)
C4_RowCount ==
    pc \in {"assembled", "declared"} =>
        /\ ALen(data.concentrations) = GridEntries(arange_args) * NDrugs
        /\ ALen(data.measurements) = GridEntries(arange_args) * NDrugs
        /\ ALen(data.drug) = GridEntries(arange_args) * NDrugs
        /\ \A g \in DOMAIN ic50_true :
             \A v \in {data.concentrations[k] : k \in DOMAIN data.concentrations} :
                Cardinality({k \in DOMAIN data.drug :
                                data.drug[k] = g /\ data.concentrations[k] = v})
                    = RangesHolding(v)
        /\ pc = "declared" =>
                /\ model.concentrations = data.concentrations
                /\ ALen(model.observed) = GridEntries(arange_args) * NDrugs

C4_Witness ==
    /\ pc = "declared"
    /\ NDrugs = 2
    /\ \E k \in DOMAIN data.concentrations :
            RangesHolding(data.concentrations[k]) = 2

(* C10: row k of the table holds drug k div N, concentration               *)
(* x_concs[k mod N] and measurement y_noisy[k mod N, k div N], which is    *)
(* the response at that row's concentration and that row's drug's true     *)
(* IC50 plus one draw of the noise.                                        *)
C10_RowsLineUp ==
    pc \in {"assembled", "declared"} =>
        /\ DOMAIN data.drug = 0..(NPoints * NDrugs - 1)
        /\ DOMAIN data.concentrations = DOMAIN data.drug
        /\ DOMAIN data.measurements = DOMAIN data.drug
        /\ \A k \in DOMAIN data.drug :
                /\ data.drug[k] = k \div NPoints
                /\ data.concentrations[k] = x_concs[k % NPoints]
                /\ data.measurements[k] = y_noisy[k % NPoints][k \div NPoints]
                /\ \E e \in {0 - NoiseSd, 0, NoiseSd} :
                        data.measurements[k] =
                            FAdd(Response(beta_true,
                                          data.concentrations[k]
                                            - ic50_true[data.drug[k]]),
                                 Fin(e))

C10_Witness ==
    /\ pc = "assembled"
    /\ NDrugs = 2
    /\ NPoints >= 2
    /\ y_noisy[0][1] # y_noisy[1][0]
    /\ data.measurements[1] = y_noisy[1][0]

(* C5: from one evaluation of the model to the next, the predicted mean of *)
(* an observation of drug d changes only if beta[d] or IC50[d] changed,    *)
(* and its standard deviation is noise[d]: the parameters of the other     *)
(* drugs do not reach it.                                                  *)
C5_OwnDrugOnly ==
    [][(pc = "map" /\ pc' = "map") =>
        \A i \in DOMAIN model.idxs :
            LET d == model.idxs[i]
            IN  /\ (start'.beta[d] = start.beta[d] /\ start'.IC50[d] = start.IC50[d])
                        => measurements'[i] = measurements[i]
                /\ y_like_sd'[i] = start'.noise[d]
                /\ measurements'[i] =
                        Response(start'.beta[d],
                                 data.concentrations[i] - start'.IC50[d])]_vars

C5_Witness ==
    /\ pc = "map"
    /\ iters = 2
    /\ model.datasize = 2
    /\ start.beta[0] = 2
    /\ \E i \in DOMAIN model.idxs :
            model.idxs[i] = 1 /\ measurements[i].v > 0

(* C6: the cells run in the order data generation, model declaration,      *)
(* inference, summarization, each once (only find_MAP repeats, inside the  *)
(* inference step), and a later step leaves what an earlier step wrote or  *)
(* read as it is.                                                          *)
C6_LinearFlow ==
    [][/\ Rank(pc') = Rank(pc) + 1 \/ (pc = "map" /\ pc' = "map")
       /\ Rank(pc) >= 1 =>
            UNCHANGED <<arange_args, ic50_true, rng, x_concs, y_true, y_noisy>>
       /\ Rank(pc) >= 2 => UNCHANGED concentrations
       /\ Rank(pc) >= 3 => UNCHANGED data
       /\ Rank(pc) >= 4 => UNCHANGED model
       /\ Rank(pc) >= 6 =>
            UNCHANGED <<start, measurements, y_like_sd, iters, trace>>
       /\ Rank(pc) >= 7 => UNCHANGED plotted]_vars

C6_Witness == pc = "summarized" /\ RunLen(trace) = Draws /\ NPoints >= 1

(* How many draws of the column lie in [lo, hi]. *)
RECURSIVE CountIn(_, _, _)
CountIn(col, lo, hi) ==
    IF col = <<>> THEN 0
    ELSE (IF lo <= Head(col).v /\ Head(col).v <= hi THEN Head(col).n ELSE 0)
         + CountIn(Tail(col), lo, hi)

ColValues(col) == {col[r].v : r \in DOMAIN col}

(* C7, as stated: for every row of the summary, lower bound <= mean <=     *)
(* upper bound.                                                            *)
C7_MeanInsideHpd ==
    pc = "summarized" =>
        \A c \in DOMAIN summary :
            /\ summary[c].hpd_lo * summary[c].n <= summary[c].sum
            /\ summary[c].sum <= summary[c].hpd_hi * summary[c].n

(* C7, amended: for every row, lower bound <= upper bound, both are draws, *)
(* the interval holds at least floor(0.95 n) + 1 of the n draws and no     *)
(* interval that holds at least that many is narrower, and the mean lies   *)
(* between the least and the greatest draw.                                *)
C7_HpdAndMeanInRange ==
    pc = "summarized" =>
        \A c \in DOMAIN summary :
            LET col == Column(summarized, c)
                r == summary[c]
                need == (HpdMassPct * r.n) \div 100 + 1
            IN  /\ r.hpd_lo <= r.hpd_hi
                /\ r.hpd_lo \in ColValues(col)
                /\ r.hpd_hi \in ColValues(col)
                /\ CountIn(col, r.hpd_lo, r.hpd_hi) >= need
                /\ \A a \in ColValues(col), b \in ColValues(col) :
                        (a <= b /\ CountIn(col, a, b) >= need)
                            => b - a >= r.hpd_hi - r.hpd_lo
                /\ Min(ColValues(col)) * r.n <= r.sum
                /\ r.sum <= Max(ColValues(col)) * r.n

(* The mean of a row is above its interval: 4990 draws at one value, 10 at *)
(* a greater one.                                                          *)
C7_Witness ==
    /\ pc = "summarized"
    /\ \E c \in DOMAIN summary :
            /\ summary[c].hpd_lo = summary[c].hpd_hi
            /\ summary[c].sum > summary[c].hpd_hi * summary[c].n
            /\ Cardinality(ColValues(Column(summarized, c))) = 2

(* C9: the trace holds 10,000 draws; what is plotted and what is           *)
(* summarized are the same 5,000 draws, and the trace is its first 5,000   *)
(* draws followed by exactly them.                                         *)
C9_BurnInDiscarded ==
    /\ Rank(pc) \in 6..8 => RunLen(trace) = 10000
    /\ Rank(pc) \in 7..8 =>
            /\ RunLen(plotted) = 5000
            /\ RunLen(PySliceTo(trace, 5000)) = 5000
            /\ trace = Canon(PySliceTo(trace, 5000) \o plotted)
    /\ Rank(pc) = 8 =>
            /\ summarized = plotted
            /\ \A c \in DOMAIN summary : summary[c].n = 5000

C9_Witness ==
    /\ pc = "summarized"
    /\ Len(trace) = 2
    /\ trace[1].n = 5001
    /\ Len(plotted) = 2
    /\ plotted[1].n = 1

InRange(x) == 0 - 1000000 <= x /\ x <= 1000000

(* C8, as stated: over the whole range of concentration - IC50 the         *)
(* response is finite and the exponential does not overflow.               *)

====
